---- MODULE Spec2Model ----
(***************************************************************************)
(* Model of the firmware metadata decoders of fiano:                       *)
(*   pkg/amd/manifest   (Embedded Firmware Structure, PSP/BIOS directory   *)
(*                       walk of parsePSPFirmware)                         *)
(*   pkg/intel/microcode (ParseIntelMicrocode)                             *)
(*                                                                         *)
(* Unsigned machine integers are kept at their full width.  A number is a  *)
(* triple <<d0, d1, d2>> of base-2^24 digits (value d0 + d1*2^24 +         *)
(* d2*2^48): a uint32 has d1 < 2^8 and d2 = 0, a uint64 has d2 < 2^16.     *)
(* An image or a byte stream is a length together with a sparse map from   *)
(* byte offsets to byte values; every byte outside the map is zero.        *)
(***************************************************************************)
EXTENDS Integers, Sequences, FiniteSets, TLC

VARIABLES
    image,            \* firmware.ImageBytes(): [len, mem]
    pc,               \* position of parsePSPFirmware / ParseIntelMicrocode
    ret,              \* "running", "ok", "error" (nil, err returned) or "panic"
    err,              \* the error returned with ret = "error" ("nil" otherwise)
    efs,              \* *efs of parsePSPFirmware (its pointers are adjusted in place)
    result,           \* var result PSPFirmware
    offset,           \* var offset uint64 of parsePSPFirmware
    biosIdx,          \* index of the loop over biosDirectoryOffsets (1..4)
    slices,           \* history: the pointer-directed slices image[p:] taken so far
    stream,           \* the io.Reader handed to ParseIntelMicrocode: [len, mem, pos]
    m,                \* var m Microcode of ParseIntelMicrocode
    arg,              \* the argument (or receiver) of a function called on its own
    out               \* what that call returned

vars == <<image, pc, ret, err, efs, result, offset, biosIdx, slices, stream, m,
         arg, out>>

-----------------------------------------------------------------------------
(* Fixed-width unsigned arithmetic                                         *)

B24 == 2^24
B16 == 2^16
B8  == 2^8

Zero == <<0, 0, 0>>

\* a small non-negative integer (an int such as len(image)) as a number
Num(n) == <<n % B24, n \div B24, 0>>

\* the uint32 with top byte hi and low 24 bits lo, e.g. 0xff000000 = U32(255, 0)
U32(hi, lo) == <<lo, hi, 0>>

Lt(a, b) ==
    \/ a[3] < b[3]
    \/ a[3] = b[3] /\ a[2] < b[2]
    \/ a[3] = b[3] /\ a[2] = b[2] /\ a[1] < b[1]

Le(a, b) == a = b \/ Lt(a, b)
Gt(a, b) == Lt(b, a)

\* the exact sum (no wrap-around; the top digit may exceed a uint64)
Add(a, b) ==
    LET s0 == a[1] + b[1]
        s1 == a[2] + b[2] + (s0 \div B24)
        s2 == a[3] + b[3] + (s1 \div B24)
    IN  <<s0 % B24, s1 % B24, s2>>

\* a - b for a >= b; for a < b the top digit is negative until wrapped
Sub(a, b) ==
    LET t0 == a[1] - b[1]
        c0 == IF t0 < 0 THEN 1 ELSE 0
        t1 == a[2] - b[2] - c0
        c1 == IF t1 < 0 THEN 1 ELSE 0
    IN  <<t0 + c0 * B24, t1 + c1 * B24, a[3] - b[3] - c1>>

Wrap32(a) == <<a[1], a[2] % B8, 0>>
Wrap64(a) == <<a[1], a[2], (a[3] + B16) % B16>>

Add32(a, b) == Wrap32(Add(a, b))
Sub32(a, b) == LET d == Sub(a, b) IN <<d[1], d[2] % B8, 0>>
Add64(a, b) == Wrap64(Add(a, b))
Sub64(a, b) == Wrap64(Sub(a, b))

\* a * k for a small factor k (an entry size)
MulSmall(a, k) ==
    LET p0 == a[1] * k
        p1 == a[2] * k + (p0 \div B24)
    IN  <<p0 % B24, p1 % B24, a[3] * k + (p1 \div B24)>>

\* a number known to be below 2^24 as an index
Idx(a) == a[1]
IsIdx(a) == a[2] = 0 /\ a[3] = 0

-----------------------------------------------------------------------------
(* Byte buffers: encoding/binary, little endian                            *)

Byte(buf, o) == IF o \in DOMAIN buf.mem THEN buf.mem[o] ELSE 0

\* binary.LittleEndian.Uint16 / Uint32 / Uint64 of the bytes at offset o
U16At(buf, o) == Byte(buf, o) + B8 * Byte(buf, o + 1)

U32At(buf, o) ==
    <<Byte(buf, o) + B8 * Byte(buf, o + 1) + B16 * Byte(buf, o + 2),
      Byte(buf, o + 3), 0>>

U64At(buf, o) ==
    <<Byte(buf, o) + B8 * Byte(buf, o + 1) + B16 * Byte(buf, o + 2),
      Byte(buf, o + 3) + B8 * Byte(buf, o + 4) + B16 * Byte(buf, o + 5),
      Byte(buf, o + 6) + B8 * Byte(buf, o + 7)>>

\* the bytes of a digit, and the bytes PutUint32 / PutUint64 write at offset o
DigitByte(d, i) == (d \div (B8 ^ i)) % B8

PutU32(o, v) ==
    [i \in o .. o + 3 |-> IF i - o < 3 THEN DigitByte(v[1], i - o) ELSE DigitByte(v[2], 0)]

PutU64(o, v) ==
    [i \in o .. o + 7 |->
        IF i - o < 3 THEN DigitByte(v[1], i - o)
        ELSE IF i - o < 6 THEN DigitByte(v[2], i - o - 3)
        ELSE DigitByte(v[3], i - o - 6)]

PutU16(o, n) == [i \in o .. o + 1 |-> DigitByte(n, i - o)]
PutU8(o, n) == [i \in {o} |-> n]

-----------------------------------------------------------------------------
(* bytes2.Range and the readers shared by the directory parsers            *)

Range(o, l) == [Offset |-> o, Length |-> l]
ZeroRange == Range(Zero, Zero)

\* readAndCountSize / binary.Read on a bytes.Buffer over buf[at:]: the read of
\* size bytes succeeds exactly when that many bytes remain
CanRead(buf, at, size) == at + size <= buf.len

\* bytes.Index(image[from:], cookie): the offsets of buf at or after from at
\* which the four cookie bytes stand (no cookie begins with a zero byte, so
\* every occurrence begins inside the sparse map)
CookieAt(buf, from, cookie) ==
    {o \in DOMAIN buf.mem : o >= from /\ o + 4 <= buf.len /\ U32At(buf, o) = cookie}

Min(S) == CHOOSE x \in S : \A y \in S : x <= y

-----------------------------------------------------------------------------
(* psp_directory_table.go                                                  *)

PSPDirectoryTableCookie == U32(\h50, \h535024)        \* "$PSP"
PSPDirectoryTableLevel2Cookie == U32(\h32, \h4C5024)  \* "$PL2"

PSPDirectoryTableLevel2Entry == 64        \* 0x40
PSPDirectoryTableLevel2RecovAEntry == 72  \* 0x48
PSPDirectoryTableLevel2RecovBEntry == 74  \* 0x4A

PSPDirectoryTableEntrySize == 16

NilTable == [nil |-> TRUE]

IsPSPDirLevel2Entry(e) ==
    e.Type \in {PSPDirectoryTableLevel2Entry,
                PSPDirectoryTableLevel2RecovAEntry,
                PSPDirectoryTableLevel2RecovBEntry}

\* an entry decoder that takes the ROM id from the low bits of the flags
ParsePSPDirectoryTableEntry_LowBits(buf, at) ==
    [Type            |-> Byte(buf, at),
     Subprogram      |-> Byte(buf, at + 1),
     ROMId           |-> U16At(buf, at + 2) % 4,
     Size            |-> U32At(buf, at + 4),
     LocationOrValue |-> U64At(buf, at + 8)]

\* ParsePSPDirectoryTableEntry on the 16 bytes at offset at
ParsePSPDirectoryTableEntry(buf, at) ==
    [Type            |-> Byte(buf, at),
     Subprogram      |-> Byte(buf, at + 1),
     ROMId           |-> (U16At(buf, at + 2) \div 16384) % 4,
     Size            |-> U32At(buf, at + 4),
     LocationOrValue |-> U64At(buf, at + 8)]

\* ParsePSPDirectoryTable(buf[b:]): [err, table, length]
ParsePSPDirectoryTable(buf, b) ==
    LET fail == [err |-> TRUE, table |-> NilTable, length |-> Zero]
        cookie == U32At(buf, b)
        total == U32At(buf, b + 8)
        sizeRequired == MulSmall(total, PSPDirectoryTableEntrySize)
        rLen == buf.len - (b + 16)
        n == Idx(total)
    IN  IF ~CanRead(buf, b, 4) THEN fail
        ELSE IF cookie # PSPDirectoryTableCookie /\ cookie # PSPDirectoryTableLevel2Cookie
        THEN fail
        ELSE IF ~CanRead(buf, b + 4, 4) \/ ~CanRead(buf, b + 8, 4) \/ ~CanRead(buf, b + 12, 4)
        THEN fail
        ELSE IF Lt(Num(rLen), sizeRequired) THEN fail
        ELSE [err    |-> FALSE,
              table  |-> [nil            |-> FALSE,
                          PSPCookie      |-> cookie,
                          Checksum       |-> U32At(buf, b + 4),
                          TotalEntries   |-> total,
                          AdditionalInfo |-> U32At(buf, b + 12),
                          Range          |-> ZeroRange,
                          Entries        |-> [i \in 1 .. n |->
                              ParsePSPDirectoryTableEntry(buf,
                                  b + 16 + PSPDirectoryTableEntrySize * (i - 1))]],
              length |-> Num(16 + PSPDirectoryTableEntrySize * n)]

\* the loop of FindPSPDirectoryTable on image[b:], the scan standing at from
RECURSIVE FindPSPFrom(_, _, _)
FindPSPFrom(buf, b, from) ==
    LET found == CookieAt(buf, from, PSPDirectoryTableCookie)
        idx == Min(found)
        p == ParsePSPDirectoryTable(buf, idx)
    IN  IF found = {} THEN [err |-> TRUE, table |-> NilTable, range |-> ZeroRange]
        ELSE IF p.err THEN FindPSPFrom(buf, b, idx + 4)
        ELSE [err |-> FALSE, table |-> p.table, range |-> Range(Num(idx - b), p.length)]

\* FindPSPDirectoryTable(buf[b:]): [err, table, range], range relative to b
FindPSPDirectoryTable(buf, b) == FindPSPFrom(buf, b, b)

\* ParseRecovEntry(buf[b:]): the five reads take 2 + 4 + 4 + 2 + 4 bytes
ParseRecovEntry(buf, b) ==
    IF ~CanRead(buf, b, 16) THEN [err |-> TRUE, nil |-> TRUE]
    ELSE [err      |-> FALSE,
          nil      |-> FALSE,
          Unknown1 |-> U16At(buf, b),
          Unknown2 |-> U32At(buf, b + 2),
          Unknown3 |-> U32At(buf, b + 6),
          Unknown4 |-> U16At(buf, b + 10),
          Location |-> U32At(buf, b + 12)]

-----------------------------------------------------------------------------
(* The image accessor of the PSP tool (dummyFirmware)                      *)

\* const mapping = 0xff000000
mapping == U32(\hFF, 0)

\* dummyFirmware.PhysAddrToOffset: physAddr - mapping in uint64
PhysAddrToOffset(physAddr) == Sub64(physAddr, mapping)

-----------------------------------------------------------------------------
(* embedded_firmware_structure.go                                          *)

EmbeddedFirmwareStructureSignature == U32(\h55, \hAA55AA)

\* the fields of struct EmbeddedFirmwareStructure in declaration order with the
\* bytes encoding/binary gives each: uint32 4, uint8 1, and SecondGenEFS its
\* three uint8 and eight bool, one byte each
SecondGenEFSSize == 3 + 8

EFSFields ==
    << <<"Signature", 4>>, <<"IMC_FW", 4>>, <<"GBE_FW", 4>>, <<"XHCI_FW", 4>>,
       <<"PSPLegacyDirectoryTablePointer", 4>>,
       <<"PSPDirectoryTablePointer", 4>>,
       <<"BIOSDirectoryTableFamily17hModels00h0FhPointer", 4>>,
       <<"BIOSDirectoryTableFamily17hModels10h1FhPointer", 4>>,
       <<"BIOSDirectoryTableFamily17hModels30h3FhPointer", 4>>,
       <<"EFSGen", SecondGenEFSSize>>,
       <<"BIOSDirectoryTableFamily17hModels60h3FhPointer", 4>>,
       <<"Reserved2Ch", 4>>, <<"PromontoryFWPointer", 4>>,
       <<"LPPromontoryFWPointer", 4>>, <<"Reserved38h", 4>>, <<"Reserved3Ch", 4>>,
       <<"SPIReadmodeFamily15Models60h6Fh", 1>>,
       <<"FastSpeedNewFamily15Models60h6Fh", 1>>, <<"Reserved42h", 1>>,
       <<"SPIReadmodeFamily17Models00h2Fh", 1>>,
       <<"SPIFastspeedFamily17Models00h2Fh", 1>>,
       <<"QPRDummyCycleFamily17Models00h2Fh", 1>>, <<"Reserved46h", 1>>,
       <<"SPIReadmodeFamily17Models30h3Fh", 1>>,
       <<"SPIFastspeedFamily17Models30h3Fh", 1>>,
       <<"MicronDetectFamily17Models30h3Fh", 1>>,
       <<"Reserved4Ah", 1>>, <<"Reserved4Bh", 1>>, <<"Reserved4Ch", 4>> >>

RECURSIVE SizeOfFirst(_, _)
SizeOfFirst(fields, k) == IF k = 0 THEN 0 ELSE fields[k][2] + SizeOfFirst(fields, k - 1)

\* binary.Size(EmbeddedFirmwareStructure{})
EFSSize == SizeOfFirst(EFSFields, Len(EFSFields))

\* the offset at which binary.Read decodes the named field
EFSFieldOffset(name) ==
    LET k == CHOOSE i \in 1 .. Len(EFSFields) : EFSFields[i][1] = name
    IN  SizeOfFirst(EFSFields, k - 1)

NilEFS == [nil |-> TRUE]

\* ParseEmbeddedFirmwareStructure on a reader over buf[b:]: [err, efs, length]
ParseEmbeddedFirmwareStructure(buf, b) ==
    LET F(name) == U32At(buf, b + EFSFieldOffset(name))
    IN  IF ~CanRead(buf, b, EFSSize)
        THEN [err |-> "unexpected EOF", efs |-> NilEFS, length |-> Zero]
        ELSE IF F("Signature") # EmbeddedFirmwareStructureSignature
        THEN [err |-> "incorrect signature", efs |-> NilEFS, length |-> Zero]
        ELSE [err    |-> "nil",
              efs    |-> [nil |-> FALSE,
                          Signature |-> F("Signature"),
                          PSPLegacyDirectoryTablePointer |->
                              F("PSPLegacyDirectoryTablePointer"),
                          PSPDirectoryTablePointer |-> F("PSPDirectoryTablePointer"),
                          BIOSDirectoryTableFamily17hModels00h0FhPointer |->
                              F("BIOSDirectoryTableFamily17hModels00h0FhPointer"),
                          BIOSDirectoryTableFamily17hModels10h1FhPointer |->
                              F("BIOSDirectoryTableFamily17hModels10h1FhPointer"),
                          BIOSDirectoryTableFamily17hModels30h3FhPointer |->
                              F("BIOSDirectoryTableFamily17hModels30h3FhPointer"),
                          BIOSDirectoryTableFamily17hModels60h3FhPointer |->
                              F("BIOSDirectoryTableFamily17hModels60h3FhPointer")],
              length |-> Num(EFSSize)]

\* the address list with its first two addresses exchanged
addresses_Swapped ==
    << U32(\hFF, \hF20000), U32(\hFF, \hFA0000), U32(\hFF, \hE20000),
       U32(\hFF, \hC20000), U32(\hFF, \h820000), U32(\hFF, \h020000) >>

\* var addresses of FindEmbeddedFirmwareStructure
addresses ==
    << U32(\hFF, \hFA0000), U32(\hFF, \hF20000), U32(\hFF, \hE20000),
       U32(\hFF, \hC20000), U32(\hFF, \h820000), U32(\hFF, \h020000) >>

\* the loop of FindEmbeddedFirmwareStructure standing at addresses[i]
RECURSIVE FindEFSFrom(_, _)
FindEFSFrom(buf, i) ==
    IF i > Len(addresses)
    THEN [err |-> "EmbeddedFirmwareStructure is not found", efs |-> NilEFS,
          range |-> ZeroRange]
    ELSE LET off == PhysAddrToOffset(addresses[i])
         IN  IF Gt(Add(off, Num(4)), Num(buf.len)) THEN FindEFSFrom(buf, i + 1)
             ELSE IF U32At(buf, Idx(off)) = EmbeddedFirmwareStructureSignature
             THEN LET p == ParseEmbeddedFirmwareStructure(buf, Idx(off))
                  IN  [err |-> p.err, efs |-> p.efs, range |-> Range(off, p.length)]
             ELSE FindEFSFrom(buf, i + 1)

\* FindEmbeddedFirmwareStructure(firmware): [err, efs, range]
FindEmbeddedFirmwareStructure(buf) == FindEFSFrom(buf, 1)

-----------------------------------------------------------------------------
(* The BIOS directory table parser (bios_directory_table.go of the         *)
(* package): the analogue of the PSP parser with its own cookies and a     *)
(* 24-byte entry {type u8, region u8, flags u8, flags u8, size u32,        *)
(* source u64, destination u64}                                            *)

BIOSDirectoryTableCookie == U32(\h44, \h484224)        \* "$BHD"
BIOSDirectoryTableLevel2Cookie == U32(\h32, \h4C4224)  \* "$BL2"

BIOSDirectoryTableLevel2Entry == 112  \* 0x70

BIOSDirectoryTableEntrySize == 24

ParseBIOSDirectoryTableEntry(buf, at) ==
    [Type               |-> Byte(buf, at),
     RegionType         |-> Byte(buf, at + 1),
     Size               |-> U32At(buf, at + 4),
     SourceAddress      |-> U64At(buf, at + 8),
     DestinationAddress |-> U64At(buf, at + 16)]

\* ParseBIOSDirectoryTable(buf[b:]): [err, table, length]
ParseBIOSDirectoryTable(buf, b) ==
    LET fail == [err |-> TRUE, table |-> NilTable, length |-> Zero]
        cookie == U32At(buf, b)
        total == U32At(buf, b + 8)
        sizeRequired == MulSmall(total, BIOSDirectoryTableEntrySize)
        rLen == buf.len - (b + 16)
        n == Idx(total)
    IN  IF ~CanRead(buf, b, 4) THEN fail
        ELSE IF cookie # BIOSDirectoryTableCookie /\ cookie # BIOSDirectoryTableLevel2Cookie
        THEN fail
        ELSE IF ~CanRead(buf, b + 4, 12) THEN fail
        ELSE IF Lt(Num(rLen), sizeRequired) THEN fail
        ELSE [err    |-> FALSE,
              table  |-> [nil          |-> FALSE,
                          BIOSCookie   |-> cookie,
                          Checksum     |-> U32At(buf, b + 4),
                          TotalEntries |-> total,
                          Reserved     |-> U32At(buf, b + 12),
                          Entries      |-> [i \in 1 .. n |->
                              ParseBIOSDirectoryTableEntry(buf,
                                  b + 16 + BIOSDirectoryTableEntrySize * (i - 1))]],
              length |-> Num(16 + BIOSDirectoryTableEntrySize * n)]

RECURSIVE FindBIOSFrom(_, _, _)
FindBIOSFrom(buf, b, from) ==
    LET found == CookieAt(buf, from, BIOSDirectoryTableCookie)
        idx == Min(found)
        p == ParseBIOSDirectoryTable(buf, idx)
    IN  IF found = {} THEN [err |-> TRUE, table |-> NilTable, range |-> ZeroRange]
        ELSE IF p.err THEN FindBIOSFrom(buf, b, idx + 4)
        ELSE [err |-> FALSE, table |-> p.table, range |-> Range(Num(idx - b), p.length)]

\* FindBIOSDirectoryTable(buf[b:]): [err, table, range], range relative to b
FindBIOSDirectoryTable(buf, b) == FindBIOSFrom(buf, b, b)

-----------------------------------------------------------------------------
(* firmware.go: level-2 promotion                                          *)

\* the literal 0xff000000 of the pointer adjustments
PhysBase == U32(\hFF, 0)

\* one pointer-directed slice image[at:] taken to parse a structure: the raw
\* pointer it came from and the offset used
Slice(site, raw, at) == [site |-> site, raw |-> raw, at |-> at]

\* AddBiosL2Entry(d, image) from entry i on: [d, log]
RECURSIVE AddBiosL2From(_, _, _)
AddBiosL2From(d, buf, i) ==
    LET entries == d.BIOSDirectoryLevel1.Entries
        entry == entries[i]
        src == IF Gt(entry.SourceAddress, PhysBase)
               THEN Sub64(entry.SourceAddress, PhysBase) ELSE entry.SourceAddress
        p == ParseBIOSDirectoryTable(buf, Idx(src))
    IN  IF i > Len(entries) THEN [d |-> d, log |-> {}]
        ELSE IF entry.Type # BIOSDirectoryTableLevel2Entry THEN AddBiosL2From(d, buf, i + 1)
        ELSE IF src # Zero /\ Lt(src, Num(buf.len))
        THEN [d   |-> IF p.err THEN d
                      ELSE [d EXCEPT !.BIOSDirectoryLevel2 = p.table,
                                     !.BIOSDirectoryLevel2Range = Range(src, p.length)],
              log |-> {Slice("bios-l2", entry.SourceAddress, src)}]
        ELSE [d |-> d, log |-> {}]

AddBiosL2Entry(d, buf) == AddBiosL2From(d, buf, 1)

\* the body of the loop of AddPspL2Entry for one level-2 pointer entry:
\* [panic, dirs (the tables to append), log]
PspL2OfEntry(entry, buf) ==
    LET loc == IF Gt(entry.LocationOrValue, PhysBase)
               THEN Sub64(entry.LocationOrValue, PhysBase) ELSE entry.LocationOrValue
        first == ParsePSPDirectoryTable(buf, Idx(loc))
        isRecov == entry.Type \in {PSPDirectoryTableLevel2RecovAEntry,
                                    PSPDirectoryTableLevel2RecovBEntry}
        recovDir == ParseRecovEntry(buf, Idx(loc))
        second == ParsePSPDirectoryTable(buf, Idx(recovDir.Location))
        direct == {Slice("psp-l2", entry.LocationOrValue, loc)}
        attach(p) == IF p.err THEN <<>>
                     ELSE << [p.table EXCEPT !.Range = Range(loc, p.length)] >>
    IN  IF ~(loc # Zero /\ Lt(loc, Num(buf.len)))
        THEN [panic |-> FALSE, dirs |-> <<>>, log |-> {}]
        ELSE IF ~(first.length = Zero /\ isRecov)
        THEN [panic |-> FALSE, dirs |-> attach(first), log |-> direct]
        \* recovDir, _ := ParseRecovEntry(...); recovDir.Location of a nil recovDir
        ELSE IF recovDir.nil
        THEN [panic |-> TRUE, dirs |-> <<>>,
              log |-> direct \cup {Slice("recov-record", entry.LocationOrValue, loc)}]
        \* image[recovDir.Location:] beyond len(image)
        ELSE IF Gt(recovDir.Location, Num(buf.len))
        THEN [panic |-> TRUE, dirs |-> <<>>,
              log |-> direct \cup {Slice("recov-record", entry.LocationOrValue, loc),
                                   Slice("recov-l2", recovDir.Location, recovDir.Location)}]
        ELSE [panic |-> FALSE, dirs |-> attach(second),
              log |-> direct \cup {Slice("recov-record", entry.LocationOrValue, loc),
                                   Slice("recov-l2", recovDir.Location, recovDir.Location)}]

\* AddPspL2Entry(p, image) from entry i on, dirs collected so far:
\* [panic, p, log]
RECURSIVE AddPspL2From(_, _, _, _)
AddPspL2From(p, buf, i, dirs) ==
    LET entries == p.PSPDirectoryLevel1.Entries
        one == PspL2OfEntry(entries[i], buf)
        rest == AddPspL2From(p, buf, i + 1, dirs \o one.dirs)
    IN  IF i > Len(entries)
        THEN [panic |-> FALSE, p |-> [p EXCEPT !.PSPDirectoryLevel2 = dirs], log |-> {}]
        ELSE IF ~IsPSPDirLevel2Entry(entries[i]) THEN AddPspL2From(p, buf, i + 1, dirs)
        ELSE IF one.panic THEN [panic |-> TRUE, p |-> p, log |-> one.log]
        ELSE [panic |-> rest.panic, p |-> rest.p, log |-> one.log \cup rest.log]

AddPspL2Entry(p, buf) == AddPspL2From(p, buf, 1, <<>>)

-----------------------------------------------------------------------------
(* firmware.go: parsePSPFirmware, one action per block of the function     *)

ucodeVars == <<stream, m>>
callVars == <<arg, out>>

EmptyResult ==
    [EmbeddedFirmware      |-> NilEFS,
     EmbeddedFirmwareRange |-> ZeroRange,
     BIOSDirectories       |-> <<>>,
     PSPDirectories        |-> <<>>]

\* a panic of the Go runtime ends the call
Panic(log) ==
    /\ pc' = "done"
    /\ ret' = "panic"
    /\ slices' = slices \cup log

\* lines 126-136: locate the EFS; its absence is the only error returned
FindEFS ==
    /\ pc = "start"
    /\ LET f == FindEmbeddedFirmwareStructure(image)
       IN  IF f.err # "nil"
           THEN /\ pc' = "done"
                /\ ret' = "error"
                /\ err' = f.err
                /\ UNCHANGED <<efs, result>>
           ELSE /\ pc' = "legacy"
                /\ UNCHANGED <<ret, err>>
                /\ efs' = f.efs
                /\ result' = [result EXCEPT !.EmbeddedFirmware = f.efs,
                                            !.EmbeddedFirmwareRange = f.range]
    /\ UNCHANGED <<image, offset, biosIdx, slices, ucodeVars, callVars>>

\* lines 161-167 and 191-197: wrap the level-1 table, promote, append.
\* via and at are history fields: the pointer the directory was obtained for
\* and the image offset its table was parsed at.
AppendPSPDir(table, range, via, at, next, log) ==
    LET pspDir == [PSPDirectoryLevel1 |-> [table EXCEPT !.Range = range],
                   PSPDirectoryLevel2 |-> <<>>,
                   via |-> via, at |-> at]
        l2 == AddPspL2Entry(pspDir, image)
    IN  IF l2.panic
        THEN /\ Panic(log \cup l2.log)
             /\ UNCHANGED result
        ELSE /\ pc' = next
             /\ ret' = ret
             /\ slices' = slices \cup log \cup l2.log
             /\ result' = [result EXCEPT !.PSPDirectories = Append(@, l2.p)]

\* lines 140-168: the legacy PSP directory
LegacyPSP ==
    /\ pc = "legacy"
    /\ LET raw == efs.PSPLegacyDirectoryTablePointer
           ptr == IF Gt(raw, PhysBase) THEN Sub32(raw, PhysBase) ELSE raw
           direct == ParsePSPDirectoryTable(image, Idx(ptr))
           \* line 151: offset = uint64(efs.PSPDirectoryTablePointer)
           off1 == IF direct.err THEN offset ELSE efs.PSPDirectoryTablePointer
           range1 == IF direct.err THEN ZeroRange ELSE Range(off1, direct.length)
           scan == FindPSPDirectoryTable(image, 0)
           useScan == direct.table.nil
           table == IF useScan THEN scan.table ELSE direct.table
           range == IF useScan THEN scan.range ELSE range1
           off2 == IF useScan /\ scan.err THEN scan.range.Offset ELSE off1
           at == IF useScan THEN scan.range.Offset ELSE ptr
           log == {Slice("psp-legacy", raw, ptr)}
       IN  /\ efs' = [efs EXCEPT !.PSPLegacyDirectoryTablePointer = ptr]
           /\ IF ptr # Zero /\ Lt(ptr, Num(image.len))
              THEN /\ offset' = off2
                   /\ IF table.nil
                      THEN /\ pc' = "modern"
                           /\ ret' = ret
                           /\ slices' = slices \cup log
                           /\ UNCHANGED result
                      ELSE AppendPSPDir(table, range, "legacy", at, "modern", log)
              ELSE /\ pc' = "modern"
                   /\ UNCHANGED <<ret, offset, slices, result>>
    /\ UNCHANGED <<image, err, biosIdx, ucodeVars, callVars>>

\* lines 169-198: the modern PSP directory
ModernPSP ==
    /\ pc = "modern"
    /\ LET raw == efs.PSPDirectoryTablePointer
           ptr == IF Gt(raw, PhysBase) THEN Sub32(raw, PhysBase) ELSE raw
           direct == ParsePSPDirectoryTable(image, Idx(ptr))
           off1 == IF direct.err THEN offset ELSE ptr
           range1 == IF direct.err THEN ZeroRange ELSE Range(off1, direct.length)
           useScan == direct.table.nil
           \* line 185: image[offset+20:]
           from == Add64(off1, Num(20))
           scan == FindPSPDirectoryTable(image, Idx(from))
           table == IF useScan THEN scan.table ELSE direct.table
           range == IF useScan THEN scan.range ELSE range1
           off2 == IF useScan /\ scan.err THEN scan.range.Offset ELSE off1
           at == IF useScan THEN Add(from, scan.range.Offset) ELSE ptr
           log == {Slice("psp-modern", raw, ptr)}
       IN  /\ efs' = [efs EXCEPT !.PSPDirectoryTablePointer = ptr]
           /\ IF ptr # Zero /\ Lt(ptr, Num(image.len))
              THEN IF useScan /\ Gt(from, Num(image.len))
                   THEN /\ Panic(log)
                        /\ offset' = off1
                        /\ UNCHANGED result
                   ELSE /\ offset' = off2
                        /\ IF table.nil
                           THEN /\ pc' = "bios"
                                /\ ret' = ret
                                /\ slices' = slices \cup log
                                /\ UNCHANGED result
                           ELSE AppendPSPDir(table, range, "modern", at, "bios", log)
              ELSE /\ pc' = "bios"
                   /\ UNCHANGED <<ret, offset, slices, result>>
    /\ UNCHANGED <<image, err, biosIdx, ucodeVars, callVars>>

\* lines 205-210
biosDirectoryOffsets ==
    << efs.BIOSDirectoryTableFamily17hModels00h0FhPointer,
       efs.BIOSDirectoryTableFamily17hModels10h1FhPointer,
       efs.BIOSDirectoryTableFamily17hModels30h3FhPointer,
       efs.BIOSDirectoryTableFamily17hModels60h3FhPointer >>

AllOnes32 == U32(\hFF, \hFFFFFF)

\* lines 212-242: one iteration of the loop over biosDirectoryOffsets
BIOSPointer ==
    /\ pc = "bios"
    /\ LET raw == biosDirectoryOffsets[biosIdx]
           off1 == IF Gt(raw, Num(image.len)) THEN Sub32(raw, PhysBase) ELSE raw
           p == ParseBIOSDirectoryTable(image, Idx(off1))
           bd == [BIOSDirectoryLevel1      |-> p.table,
                  BIOSDirectoryLevel1Range |-> Range(off1, p.length),
                  BIOSDirectoryLevel2      |-> NilTable,
                  BIOSDirectoryLevel2Range |-> ZeroRange,
                  via                      |-> biosIdx]
           l2 == AddBiosL2Entry(bd, image)
       IN  IF raw = Zero \/ raw = AllOnes32 \/ Gt(off1, Num(image.len))
           THEN UNCHANGED <<result, slices>>
           ELSE IF p.err
           THEN /\ slices' = slices \cup {Slice("bios", raw, off1)}
                /\ UNCHANGED result
           ELSE /\ slices' = slices \cup {Slice("bios", raw, off1)} \cup l2.log
                /\ result' = [result EXCEPT !.BIOSDirectories = Append(@, l2.d)]
    /\ biosIdx' = biosIdx + 1
    /\ pc' = IF biosIdx = Len(biosDirectoryOffsets) THEN "scan" ELSE "bios"
    /\ UNCHANGED <<image, ret, err, efs, offset, ucodeVars, callVars>>

\* lines 244-259: the cookie scan of the whole image, and the return
BIOSScan ==
    /\ pc = "scan"
    /\ LET s == FindBIOSDirectoryTable(image, 0)
           bd == [BIOSDirectoryLevel1      |-> s.table,
                  BIOSDirectoryLevel1Range |-> s.range,
                  BIOSDirectoryLevel2      |-> NilTable,
                  BIOSDirectoryLevel2Range |-> ZeroRange,
                  via                      |-> 0]
       IN  result' = IF s.err THEN result
                     ELSE [result EXCEPT !.BIOSDirectories = Append(@, bd)]
    /\ pc' = "done"
    /\ ret' = "ok"
    /\ UNCHANGED <<image, err, efs, offset, biosIdx, slices, ucodeVars, callVars>>

-----------------------------------------------------------------------------
(* Images.  An image is written the way a firmware build writes it: the    *)
(* EFS in the documented 80-byte layout (the table in the comment of       *)
(* embedded_firmware_structure.go), directory tables and recovery records  *)
(* at fixed offsets, every other byte zero.                                *)

\* the largest number of entries of a generated level-1 table
MaxEntries == 2

ImageLen == \h1000000   \* a 16 MiB flash part

\* merge of byte maps, the left one winning
Bytes(maps) ==
    LET RECURSIVE Merge(_)
        Merge(k) == IF k = 0 THEN <<>> ELSE maps[k] @@ Merge(k - 1)
    IN  Merge(Len(maps))

\* an image of len bytes holding the bytes of mem that are inside it
MkImage(len, mem) ==
    [len |-> len,
     mem |-> [o \in {x \in DOMAIN mem : x < len /\ mem[x] # 0} |-> mem[o]]]

Phys(off) == Add(Num(off), mapping)

\* the documented EFS record at offset at (record offsets in hex):
\* 10 PSP legacy, 14 PSP modern, 18 1C 20 BIOS, 24 EFS generation, 28 BIOS,
\* 2C reserved, 30 Promontory FW
EFSBytes(at, legacy, modern, bios, prom) ==
    Bytes(<< PutU32(at, EmbeddedFirmwareStructureSignature),
             PutU32(at + \h10, legacy), PutU32(at + \h14, modern),
             PutU32(at + \h18, bios[1]), PutU32(at + \h1C, bios[2]),
             PutU32(at + \h20, bios[3]), PutU32(at + \h24, U32(\hFF, \hFFFFFE)),
             PutU32(at + \h28, bios[4]), PutU32(at + \h2C, AllOnes32),
             PutU32(at + \h30, prom), PutU32(at + \h38, U32(\hFF, \h90F000)),
             PutU32(at + \h4C, AllOnes32) >>)

PSPEntry(type, loc) ==
    [Type |-> type, Subprogram |-> 0, flags |-> \h4000, Size |-> Num(\h100),
     LocationOrValue |-> loc]

PSPEntryBytes(at, e) ==
    Bytes(<< PutU8(at, e.Type), PutU8(at + 1, e.Subprogram), PutU16(at + 2, e.flags),
             PutU32(at + 4, e.Size), PutU64(at + 8, e.LocationOrValue) >>)

PSPTableBytes(at, cookie, total, es) ==
    Bytes(<< PutU32(at, cookie), PutU32(at + 4, U32(\h12, \h345678)),
             PutU32(at + 8, total), PutU32(at + 12, Zero) >>
          \o [i \in 1 .. Len(es) |-> PSPEntryBytes(at + 16 + 16 * (i - 1), es[i])])

BIOSEntry(type, src) == [Type |-> type, SourceAddress |-> src]

BIOSEntryBytes(at, e) ==
    Bytes(<< PutU8(at, e.Type), PutU8(at + 1, 0), PutU32(at + 4, Num(\h100)),
             PutU64(at + 8, e.SourceAddress), PutU64(at + 16, AllOnes32) >>)

BIOSTableBytes(at, cookie, es) ==
    Bytes(<< PutU32(at, cookie), PutU32(at + 4, U32(\h12, \h345678)),
             PutU32(at + 8, Num(Len(es))), PutU32(at + 12, Zero) >>
          \o [i \in 1 .. Len(es) |-> BIOSEntryBytes(at + 16 + 24 * (i - 1), es[i])])

\* {u16, u32, u32, u16, u32 location}, as in the samples of psp_directory_table.go
RecovBytes(at, location) ==
    Bytes(<< PutU16(at, 2), PutU32(at + 2, Num(3)), PutU32(at + 6, Num(\hFF)),
             PutU16(at + 10, 0), PutU32(at + 12, location) >>)

SeqsUpTo(S, n) == UNION {[1 .. k -> S] : k \in 0 .. n}

\* where things stand in the generated images
EFSAt   == \hFA0000   \* physical 0xfffa0000
DecoyAt == \h030000   \* a "$PSP" cookie whose entry count does not fit
TBAt    == \h040000   \* a level-1 PSP table, one level-2 pointer
RecovAt == \h060000   \* recovery record, location 0x80000
Recov2At == \h070000  \* recovery record, location written as 0xff080000
L2BAt   == \h080000   \* a level-2 PSP table
TAAt    == \h0E7000   \* the level-1 PSP table whose entries vary
L2AAt   == \h0E7100   \* a level-2 PSP table
JunkAt  == \h123456   \* zero bytes
BAAt    == \h240000   \* the level-1 BIOS table whose entries vary
BL2At   == \h3AF000   \* a level-2 BIOS table
BBAt    == \h5DF000   \* a level-1 BIOS table without entries
BCAt    == \h6000FF   \* a level-1 BIOS table without entries

PSPEntryChoices ==
    { PSPEntry(1, Num(\h1000)),
      PSPEntry(PSPDirectoryTableLevel2Entry, Phys(L2AAt)),
      PSPEntry(PSPDirectoryTableLevel2Entry, Num(JunkAt)),
      PSPEntry(PSPDirectoryTableLevel2RecovAEntry, Num(RecovAt)),
      PSPEntry(PSPDirectoryTableLevel2RecovBEntry, Num(Recov2At)),
      PSPEntry(PSPDirectoryTableLevel2RecovAEntry, Num(ImageLen - 8)) }

PSPPointerChoices ==
    { Zero, Num(TAAt), Phys(TAAt), Num(TBAt), Num(JunkAt), Phys(JunkAt) }

BIOSEntryChoices ==
    { BIOSEntry(\h62, Num(\h2000)),
      BIOSEntry(BIOSDirectoryTableLevel2Entry, Phys(BL2At)),
      BIOSEntry(BIOSDirectoryTableLevel2Entry, Num(BBAt)),
      BIOSEntry(BIOSDirectoryTableLevel2Entry, Num(JunkAt)) }

BIOSPointerChoices ==
    { Zero, AllOnes32, Num(BAAt), Phys(BBAt), Num(ImageLen), PhysBase, Num(JunkAt) }

\* the structures every generated image holds
FixedBytes ==
    Bytes(<< PSPTableBytes(DecoyAt, PSPDirectoryTableCookie, AllOnes32, <<>>),
             PSPTableBytes(TBAt, PSPDirectoryTableCookie, Num(1),
                           << PSPEntry(PSPDirectoryTableLevel2Entry, Num(L2BAt)) >>),
             RecovBytes(RecovAt, Num(L2BAt)),
             RecovBytes(Recov2At, Phys(L2BAt)),
             PSPTableBytes(L2BAt, PSPDirectoryTableLevel2Cookie, Num(1),
                           << PSPEntry(1, Num(\h2000)) >>),
             PSPTableBytes(L2AAt, PSPDirectoryTableLevel2Cookie, Zero, <<>>),
             BIOSTableBytes(BL2At, BIOSDirectoryTableLevel2Cookie,
                            << BIOSEntry(\h62, Num(\h3000)) >>),
             BIOSTableBytes(BBAt, BIOSDirectoryTableCookie, <<>>),
             BIOSTableBytes(BCAt, BIOSDirectoryTableCookie, <<>>) >>)

WalkImage(legacy, modern, bios, prom, pspEntries, biosEntries) ==
    MkImage(ImageLen,
            Bytes(<< EFSBytes(EFSAt, legacy, modern, bios, prom),
                     PSPTableBytes(TAAt, PSPDirectoryTableCookie, Num(Len(pspEntries)),
                                   pspEntries),
                     BIOSTableBytes(BAAt, BIOSDirectoryTableCookie, biosEntries),
                     FixedBytes >>))

DefaultBios == << Phys(BAAt), Zero, AllOnes32, Num(BBAt) >>
DefaultBiosEntries == << BIOSEntry(BIOSDirectoryTableLevel2Entry, Phys(BL2At)) >>
DefaultPspEntries == << PSPEntry(PSPDirectoryTableLevel2Entry, Phys(L2AAt)) >>

\* the images of the walk: the PSP pointers and the entries of the level-1 PSP
\* table vary; or the BIOS pointers vary; or the entries of the BIOS table vary
WalkImages ==
    {WalkImage(l, md, DefaultBios, Zero, es, DefaultBiosEntries) :
        l \in PSPPointerChoices, md \in PSPPointerChoices,
        es \in SeqsUpTo(PSPEntryChoices, MaxEntries)}
    \cup
    {WalkImage(Zero, Phys(TAAt), <<b[1], b[2], b[3], Zero>>, pr, DefaultPspEntries,
               DefaultBiosEntries) :
        b \in [1 .. 3 -> BIOSPointerChoices], pr \in {Zero, Num(\h6000)}}
    \cup
    {WalkImage(Zero, Phys(TAAt), DefaultBios, Zero, DefaultPspEntries, es) :
        es \in SeqsUpTo(BIOSEntryChoices, MaxEntries)}

NoStream == [len |-> 0, mem |-> <<>>, pos |-> 0]
NoMicrocode == [nil |-> TRUE]
NoCall == [nil |-> TRUE]

InitWalkVars ==
    /\ pc = "start"
    /\ ret = "running"
    /\ err = "nil"
    /\ efs = NilEFS
    /\ result = EmptyResult
    /\ offset = Zero
    /\ biosIdx = 1
    /\ slices = {}
    /\ stream = NoStream
    /\ m = NoMicrocode
    /\ arg = NoCall
    /\ out = NoCall

Init ==
    /\ image \in WalkImages
    /\ InitWalkVars

Next ==
    \/ FindEFS
    \/ LegacyPSP
    \/ ModernPSP
    \/ BIOSPointer
    \/ BIOSScan

Spec == Init /\ [][Next]_vars

-----------------------------------------------------------------------------
(* Claims about parsePSPFirmware                                           *)

Returned == pc = "done" /\ ret = "ok"

Elems(seq) == {seq[i] : i \in 1 .. Len(seq)}

\* every PSP directory table of the aggregate, level 1 and level 2
PSPTables ==
    UNION {{d.PSPDirectoryLevel1} \cup Elems(d.PSPDirectoryLevel2) :
           d \in Elems(result.PSPDirectories)}

\* every Range of the aggregate
Ranges ==
    {result.EmbeddedFirmwareRange}
    \cup {t.Range : t \in PSPTables}
    \cup {d.BIOSDirectoryLevel1Range : d \in Elems(result.BIOSDirectories)}
    \cup {d.BIOSDirectoryLevel2Range : d \in Elems(result.BIOSDirectories)}

InsideImage(r) == Le(Add(r.Offset, r.Length), Num(image.len))

\* C1: once FindEmbeddedFirmwareStructure has succeeded, parsePSPFirmware runs
\* to completion and returns the aggregate with a nil error: it never ends in
\* a panic (out-of-range slice, nil dereference).
C1_WalkNeverAborts == pc = "done" /\ ret # "error" => ret = "ok"

\* C3: every Range of the returned aggregate lies inside the image:
\* Offset + Length <= len(image).
C3_RangesInsideImage == Returned => \A r \in Ranges : InsideImage(r)

\* the table ParsePSPDirectoryTable yields at image[r.Offset:], as recorded
\* with Range r
ParsedAt(r) ==
    LET p == ParsePSPDirectoryTable(image, Idx(r.Offset))
    IN  IF ~IsIdx(r.Offset) \/ Gt(r.Offset, Num(image.len)) \/ p.err THEN NilTable
        ELSE [p.table EXCEPT !.Range = Range(r.Offset, p.length)]

\* C4: every PSP directory table of the returned aggregate records the Range
\* it was parsed from: parsing image[Range.Offset:] yields that table, with
\* length Range.Length.
C4_PSPRangeIsWhereParsed == Returned => \A t \in PSPTables : ParsedAt(t.Range) = t

\* the physical-address heuristic of the data model
Heuristic(raw) == IF Gt(raw, PhysBase) THEN Sub(raw, PhysBase) ELSE raw

\* C5: every offset at which the image is sliced to parse a directory table
\* or a recovery record is the heuristic applied to the raw pointer, and is
\* strictly below len(image).
C5_SlicesCheckedPointers ==
    \A sl \in slices : sl.at = Heuristic(sl.raw) /\ Lt(sl.at, Num(image.len))

\* C6: the output keeps the discovery order: the directory obtained for the
\* modern PSP pointer precedes the one for the legacy pointer, the BIOS
\* directories follow the order of the four pointers, the scanned one last.
C6_DiscoveryOrder ==
    Returned =>
        /\ \A i, j \in 1 .. Len(result.PSPDirectories) :
              /\ result.PSPDirectories[i].via = "modern"
              /\ result.PSPDirectories[j].via = "legacy"
              => i < j
        /\ \A i, j \in 1 .. Len(result.BIOSDirectories) :
              i < j => LET a == result.BIOSDirectories[i].via
                           b == result.BIOSDirectories[j].via
                       IN  a # 0 /\ (b = 0 \/ a < b)

\* C7: at most one level-2 directory is attached to a level-1 directory.
C7_AtMostOneLevel2 ==
    Returned => \A d \in Elems(result.PSPDirectories) : Len(d.PSPDirectoryLevel2) <= 1

\* a level-1 entry of recovery type whose location holds an indirection
\* record (not a table) naming a parsable level-2 table
IsRecovCase(e) ==
    LET loc == Heuristic(e.LocationOrValue)
        rec == ParseRecovEntry(image, Idx(loc))
    IN  /\ e.Type \in {PSPDirectoryTableLevel2RecovAEntry,
                       PSPDirectoryTableLevel2RecovBEntry}
        /\ loc # Zero /\ Lt(loc, Num(image.len))
        /\ ParsePSPDirectoryTable(image, Idx(loc)).err
        /\ ~rec.nil
        /\ Lt(rec.Location, Num(image.len))
        /\ ~ParsePSPDirectoryTable(image, Idx(rec.Location)).err

RecovLocation(e) == ParseRecovEntry(image, Idx(Heuristic(e.LocationOrValue))).Location

\* C8: for a recovery entry the level-2 directory parsed at the location
\* field of the indirection record is attached with Range.Offset equal to
\* that location field.
C8_RecovRangeIsRecordLocation ==
    Returned =>
        \A d \in Elems(result.PSPDirectories) :
            \A e \in Elems(d.PSPDirectoryLevel1.Entries) :
                IsRecovCase(e) =>
                    \E t \in Elems(d.PSPDirectoryLevel2) :
                        /\ t.Range.Offset = RecovLocation(e)
                        /\ t = ParsedAt(t.Range)

-----------------------------------------------------------------------------
(* The EFS locator on images that hold the signature at several, one or    *)
(* none of the six addresses, some of them cut short                       *)

\* a word that differs from the signature in one bit
NearSignature == U32(\h55, \hAA55AB)

\* per address: 0 nothing, 1 an EFS record, 2 the near-signature
EFSChoices == [1 .. Len(addresses) -> {0, 1, 2}]

EFSImageLens ==
    { ImageLen,             \* all six addresses inside
      \hFA0002,             \* the first address cut inside its signature
      \hFA0004,             \* the signature fits, the record does not
      \hFA0050,             \* exactly the 80 documented bytes fit
      \hFA0057,             \* exactly binary.Size bytes fit
      \h820032 }            \* only the last two addresses, the fifth cut short

EFSImage(c, len) ==
    MkImage(len,
            Bytes([i \in 1 .. Len(addresses) |->
                      IF c[i] = 1
                      THEN EFSBytes(Idx(PhysAddrToOffset(addresses[i])), Zero, Phys(TAAt),
                                    DefaultBios, Zero)
                      ELSE IF c[i] = 2
                      THEN PutU32(Idx(PhysAddrToOffset(addresses[i])), NearSignature)
                      ELSE <<>>]
                  \o << PSPTableBytes(TAAt, PSPDirectoryTableCookie, Num(1),
                                      DefaultPspEntries),
                        BIOSTableBytes(BAAt, BIOSDirectoryTableCookie, DefaultBiosEntries),
                        FixedBytes >>))

EFSImages == {EFSImage(c, len) : c \in EFSChoices, len \in EFSImageLens}

InitEFS ==
    /\ image \in EFSImages
    /\ InitWalkVars

SpecEFS == InitEFS /\ [][Next]_vars

-----------------------------------------------------------------------------
(* Claims about FindEmbeddedFirmwareStructure                              *)

\* the six physical addresses of the claim, in its order
C2_Addresses ==
    << U32(\hFF, \hFA0000), U32(\hFF, \hF20000), U32(\hFF, \hE20000),
       U32(\hFF, \hC20000), U32(\hFF, \h820000), U32(\hFF, \h020000) >>

C2_Offset(i) == Sub(C2_Addresses[i], U32(\hFF, 0))

\* the addresses that hold the signature inside the image
C2_Holders ==
    {i \in 1 .. Len(C2_Addresses) :
        /\ Le(Add(C2_Offset(i), Num(4)), Num(image.len))
        /\ U32At(image, Idx(C2_Offset(i))) = U32(\h55, \hAA55AA)}

C2_First == Min(C2_Holders)

C2_Searched == pc # "start"

C2_NotFound == ret = "error" /\ err = "EmbeddedFirmwareStructure is not found"

C2_ReturnedAt(i) ==
    /\ ret # "error"
    /\ ~result.EmbeddedFirmware.nil
    /\ result.EmbeddedFirmwareRange.Offset = C2_Offset(i)
    /\ result.EmbeddedFirmware =
           ParseEmbeddedFirmwareStructure(image, Idx(C2_Offset(i))).efs

-----------------------------------------------------------------------------
(* pkg/intel/microcode/microcode.go                                        *)

walkVars == <<image, efs, result, offset, biosIdx, slices>>

HeaderSize            == 12 * 4   \* binary.Size(Header{})
ExtendedSigTableSize  == 5 * 4    \* binary.Size(ExtendedSigTable{})
ExtendedSignatureSize == 3 * 4    \* binary.Size(ExtendedSignature{})

\* binary.Read(r, binary.LittleEndian, &m.Header) on the bytes at offset at
DecodeHeader(buf, at) ==
    [HeaderVersion            |-> U32At(buf, at),
     HeaderRevision           |-> U32At(buf, at + 4),
     HeaderDate               |-> U32At(buf, at + 8),
     HeaderProcessorSignature |-> U32At(buf, at + 12),
     HeaderChecksum           |-> U32At(buf, at + 16),
     HeaderLoaderRevision     |-> U32At(buf, at + 20),
     HeaderProcessorFlags     |-> U32At(buf, at + 24),
     HeaderDataSize           |-> U32At(buf, at + 28),
     HeaderTotalSize          |-> U32At(buf, at + 32),
     Reserved1                |-> <<U32At(buf, at + 36), U32At(buf, at + 40),
                                    U32At(buf, at + 44)>>]

\* binary.Write(buf, binary.LittleEndian, &m.Header) at offset at
EncodeHeader(at, h) ==
    Bytes(<< PutU32(at, h.HeaderVersion), PutU32(at + 4, h.HeaderRevision),
             PutU32(at + 8, h.HeaderDate),
             PutU32(at + 12, h.HeaderProcessorSignature),
             PutU32(at + 16, h.HeaderChecksum),
             PutU32(at + 20, h.HeaderLoaderRevision),
             PutU32(at + 24, h.HeaderProcessorFlags),
             PutU32(at + 28, h.HeaderDataSize),
             PutU32(at + 32, h.HeaderTotalSize),
             PutU32(at + 36, h.Reserved1[1]), PutU32(at + 40, h.Reserved1[2]),
             PutU32(at + 44, h.Reserved1[3]) >>)

DecodeExtendedSigTable(buf, at) ==
    [Count    |-> U32At(buf, at),
     Checksum |-> U32At(buf, at + 4),
     Reserved |-> <<U32At(buf, at + 8), U32At(buf, at + 12), U32At(buf, at + 16)>>]

EncodeExtendedSigTable(at, t) ==
    Bytes(<< PutU32(at, t.Count), PutU32(at + 4, t.Checksum),
             PutU32(at + 8, t.Reserved[1]), PutU32(at + 12, t.Reserved[2]),
             PutU32(at + 16, t.Reserved[3]) >>)

DecodeExtendedSignature(buf, at) ==
    [Signature      |-> U32At(buf, at),
     ProcessorFlags |-> U32At(buf, at + 4),
     Checksum       |-> U32At(buf, at + 8)]

EncodeExtendedSignature(at, e) ==
    Bytes(<< PutU32(at, e.Signature), PutU32(at + 4, e.ProcessorFlags),
             PutU32(at + 8, e.Checksum) >>)

getTotalSize(h) ==
    IF Gt(h.HeaderDataSize, Zero)
    THEN h.HeaderTotalSize
    ELSE Wrap32(Num(HeaderSize + \h2000))

getDataSize(h) ==
    IF Gt(h.HeaderDataSize, Zero)
    THEN h.HeaderDataSize
    ELSE Num(\h2000)

\* x % 4 of a uint32 (2^24 is a multiple of 4)
Mod4(a) == a[1] % 4

\* the zero value of Microcode, and the nil *Microcode returned with an error
EmptyBuf == [len |-> 0, mem |-> <<>>]
ZeroHeader == DecodeHeader(EmptyBuf, 0)
ZeroMicrocode ==
    [nil |-> FALSE, Header |-> ZeroHeader, Data |-> EmptyBuf,
     ExtSigTable |-> DecodeExtendedSigTable(EmptyBuf, 0),
     ExtendedSignatures |-> <<>>]

\* io.ReadFull of n bytes (n a number) from the stream: whether they remain
Remain(s, n) == Le(Add(Num(s.pos), n), Num(s.len))

\* the n bytes of buf from offset at, as a buffer of their own
SubBuf(buf, at, n) ==
    [len |-> n,
     mem |-> [o \in {x - at : x \in {y \in DOMAIN buf.mem : y >= at /\ y < at + n}}
                 |-> buf.mem[o + at]]]

\* the loop `for { binary.Read(buf, ..., &data); checksum += data }` confined
\* to the words below offset upto
SumWordsBelow(buf, upto) ==
    LET words == {x \div 4 : x \in {y \in DOMAIN buf.mem :
                                      4 * (y \div 4) + 4 <= upto}}
        RECURSIVE Sum(_)
        Sum(W) ==
            IF W = {} THEN Zero
            ELSE LET w == CHOOSE x \in W : TRUE
                 IN  Add32(U32At(buf, 4 * w), Sum(W \ {w}))
    IN  Sum(words)

\* a checksum loop that stops after the header
SumWords_HeaderOnly(buf) == SumWordsBelow(buf, HeaderSize)

\* the checksum loops of ParseIntelMicrocode: the uint32 sum of the complete
\* little-endian words of buf, read until the buffer is exhausted (a word of
\* zero bytes adds nothing, so only the words with a byte in the sparse map
\* are added)
SumWords(buf) == SumWordsBelow(buf, buf.len)

\* buf after binary.Write of the header and of the data
HeaderAndData(mc) ==
    MkImage(HeaderSize + mc.Data.len,
            EncodeHeader(0, mc.Header) @@
            [o \in {x + HeaderSize : x \in DOMAIN mc.Data.mem}
                |-> mc.Data.mem[o - HeaderSize]])

\* buf after binary.Write of the table and of the Count signatures
ExtendedBlock(mc) ==
    LET n == Len(mc.ExtendedSignatures)
    IN  MkImage(ExtendedSigTableSize + n * ExtendedSignatureSize,
                Bytes(<<EncodeExtendedSigTable(0, mc.ExtSigTable)>> \o
                      [i \in 1 .. n |->
                          EncodeExtendedSignature(
                              ExtendedSigTableSize + (i - 1) * ExtendedSignatureSize,
                              mc.ExtendedSignatures[i])]))

\* the loop `for i := uint32(0); i < m.ExtSigTable.Count; i++` reading the
\* signatures from offset at of the stream
RECURSIVE ReadSignatures(_, _, _, _)
ReadSignatures(s, at, i, count) ==
    IF ~ Lt(Num(i), count)
    THEN [err |-> FALSE, sigs |-> <<>>, pos |-> at]
    ELSE IF at + ExtendedSignatureSize > s.len
    THEN [err |-> TRUE, sigs |-> <<>>, pos |-> s.len]
    ELSE LET rest == ReadSignatures(s, at + ExtendedSignatureSize, i + 1, count)
         IN  [err  |-> rest.err,
              sigs |-> <<DecodeExtendedSignature(s, at)>> \o rest.sigs,
              pos  |-> rest.pos]

\* return nil, fmt.Errorf(e)
Fail(e) ==
    /\ pc' = "done"
    /\ ret' = "error"
    /\ err' = e
    /\ m' = NoMicrocode

ReadHeader ==
    /\ pc = "header"
    /\ IF Remain(stream, Num(HeaderSize))
       THEN /\ m' = [m EXCEPT !.Header = DecodeHeader(stream, stream.pos)]
            /\ stream' = [stream EXCEPT !.pos = @ + HeaderSize]
            /\ pc' = "sanity"
            /\ UNCHANGED <<ret, err>>
       ELSE /\ Fail("Failed to read header")
            /\ stream' = [stream EXCEPT !.pos = stream.len]
    /\ UNCHANGED <<walkVars, callVars>>

SanityChecks ==
    /\ pc = "sanity"
    /\ LET total == getTotalSize(m.Header)
           data  == getDataSize(m.Header)
       IN  IF Lt(total, Add32(data, Num(HeaderSize)))
           THEN Fail("Bad data file size")
           ELSE IF m.Header.HeaderLoaderRevision # Num(1) \/ m.Header.HeaderVersion # Num(1)
           THEN Fail("Invalid version or revision")
           ELSE IF Mod4(data) > 0
           THEN Fail("Data size not 32bit aligned")
           ELSE IF Mod4(total) > 0
           THEN Fail("Total size not 32bit aligned")
           ELSE /\ pc' = "data"
                /\ UNCHANGED <<ret, err, m>>
    /\ UNCHANGED <<stream, walkVars, callVars>>

ReadData ==
    /\ pc = "data"
    /\ LET dataSize == getDataSize(m.Header)
       IN  IF Remain(stream, dataSize)
           THEN /\ m' = [m EXCEPT !.Data = SubBuf(stream, stream.pos, Idx(dataSize))]
                /\ stream' = [stream EXCEPT !.pos = @ + Idx(dataSize)]
                /\ pc' = "checksum"
                /\ UNCHANGED <<ret, err>>
           ELSE /\ Fail("Failed to read data")
                /\ stream' = [stream EXCEPT !.pos = stream.len]
    /\ UNCHANGED <<walkVars, callVars>>

Checksum ==
    /\ pc = "checksum"
    /\ IF SumWords(HeaderAndData(m)) # Zero
       THEN Fail("Checksum is not null")
       ELSE IF Le(getTotalSize(m.Header),
                  Add32(getDataSize(m.Header), Num(HeaderSize)))
       THEN /\ pc' = "done"
            /\ ret' = "ok"
            /\ UNCHANGED <<err, m>>
       ELSE /\ pc' = "ext"
            /\ UNCHANGED <<ret, err, m>>
    /\ UNCHANGED <<stream, walkVars, callVars>>

ReadExt ==
    /\ pc = "ext"
    /\ IF ~ Remain(stream, Num(ExtendedSigTableSize))
       THEN /\ Fail("Failed to read extended sig table")
            /\ stream' = [stream EXCEPT !.pos = stream.len]
       ELSE LET table == DecodeExtendedSigTable(stream, stream.pos)
                r == ReadSignatures(stream, stream.pos + ExtendedSigTableSize,
                                    0, table.Count)
            IN  /\ stream' = [stream EXCEPT !.pos = r.pos]
                /\ IF r.err
                   THEN Fail("Failed to read extended signature")
                   ELSE /\ m' = [m EXCEPT !.ExtSigTable = table,
                                          !.ExtendedSignatures = r.sigs]
                        /\ pc' = "extsum"
                        /\ UNCHANGED <<ret, err>>
    /\ UNCHANGED <<walkVars, callVars>>

ExtChecksum ==
    /\ pc = "extsum"
    /\ IF SumWords(ExtendedBlock(m)) # Zero
       THEN Fail("Extended header checksum is not null")
       ELSE /\ pc' = "done"
            /\ ret' = "ok"
            /\ UNCHANGED <<err, m>>
    /\ UNCHANGED <<stream, walkVars, callVars>>

-----------------------------------------------------------------------------
(* Microcode update streams                                                *)

\* the largest number of extended signatures of a generated update
MaxExtSigs == 2

RECURSIVE SumSeq(_)
SumSeq(ws) == IF ws = <<>> THEN Zero ELSE Add32(Head(ws), SumSeq(Tail(ws)))

WordsBytes(at, ws) ==
    IF ws = <<>> THEN <<>>
    ELSE Bytes([i \in 1 .. Len(ws) |-> PutU32(at + 4 * (i - 1), ws[i])])

\* the twelve header words of an update of revision 0x21 dated 07/18/2019
HeaderWords(ver, ldr, ds, ts, csum) ==
    << ver, Num(\h21), U32(\h07, \h182019), Num(\h0906EA), csum, ldr,
       Num(\h22), ds, ts, Zero, Zero, Zero >>

ExtSigWords(n) ==
    [i \in 1 .. 3 * n |->
        IF i % 3 = 1 THEN Num(\h0906EB + i)
        ELSE IF i % 3 = 2 THEN Num(i)
        ELSE U32(\hA5, i)]

\* an update whose data block occupies dl bytes after the header, holding the
\* words d[1] (first) and d[2] (last), followed by an extended table that
\* declares count signatures and holds sigs of them; the two checksum fields
\* balance their blocks up to delta and extDelta
UcodeBytes(ver, ldr, ds, ts, dl, d, delta, sigs, count, extDelta) ==
    LET others == Add32(SumSeq(HeaderWords(ver, ldr, ds, ts, Zero)), Add32(d[1], d[2]))
        csum == Add32(Sub32(Zero, others), Num(delta))
        extAt == HeaderSize + dl
        extOthers == Add32(count, SumSeq(ExtSigWords(sigs)))
        extCsum == Add32(Sub32(Zero, extOthers), Num(extDelta))
    IN  Bytes(<< WordsBytes(0, HeaderWords(ver, ldr, ds, ts, csum)),
                 PutU32(HeaderSize, d[1]),
                 PutU32(HeaderSize + dl - 4, d[2]),
                 WordsBytes(extAt, <<count, extCsum, Zero, Zero, Zero>>),
                 WordsBytes(extAt + ExtendedSigTableSize, ExtSigWords(sigs)) >>)

MkStream(len, mem) ==
    LET b == MkImage(len, mem) IN [len |-> b.len, mem |-> b.mem, pos |-> 0]

VersionChoices == { <<1, 1>>, <<2, 1>>, <<1, 0>> }
DataSizeChoices == { 0, 8, 6, \h1000 }
DataWordChoices == { Zero, Num(1), U32(\h12, \h345678) }

\* the bytes a data block of declared size ds occupies in a generated update:
\* an absent size is laid out both as 2000 and as 0x2000 bytes
DataLayouts(ds) == IF ds = 0 THEN {2000, \h2000} ELSE IF ds % 4 # 0 THEN {8} ELSE {ds}

TotalSizeChoices(dl) ==
    { 0, HeaderSize + dl, HeaderSize + dl + 32, 2048, HeaderSize + \h2000,
      \h1420, 50, 40 }

\* updates that vary the version and the two size fields
SizeStreams ==
    UNION { UNION { { MkStream(len, UcodeBytes(Num(v[1]), Num(v[2]), Num(ds), Num(ts), dl,
                                               <<U32(\h12, \h345678), Zero>>, 0, 1, Num(1), 0)) :
                        v \in VersionChoices, ts \in TotalSizeChoices(dl),
                        len \in {HeaderSize + dl, HeaderSize + dl + 32} } :
                    dl \in DataLayouts(ds) } :
            ds \in DataSizeChoices }

\* updates that vary the data, the signatures and the two checksums
ChecksumStreams ==
    UNION { UNION { { MkStream(len, UcodeBytes(Num(1), Num(1), Num(ds), Num(ts), dl,
                                               d, delta, sigs, count, extDelta)) :
                        ts \in {HeaderSize + dl, tot}, d \in DataWordChoices \X DataWordChoices,
                        delta \in {0, 1}, extDelta \in {0, 1},
                        count \in {Num(sigs), Num(sigs + 1), AllOnes32},
                        len \in {tot, tot - 4, 20, 0} } :
                    dl \in {IF ds = 0 THEN \h2000 ELSE ds},
                    tot \in {HeaderSize + (IF ds = 0 THEN \h2000 ELSE ds)
                               + ExtendedSigTableSize + sigs * ExtendedSignatureSize} } :
            ds \in {0, 8, \h1000}, sigs \in 0 .. MaxExtSigs }

\* data sizes next to 2^32, for which data_size + 48 leaves the 32 bits
HugeDataSizes == { U32(\hFF, \hFFFFF0), U32(\hFF, \hFFFFD0), U32(\hFF, \hFFFFCC) }

\* updates whose header declares a data block of nearly 4 GiB
WrapStreams ==
    { MkStream(HeaderSize + 8 + 32,
               UcodeBytes(Num(1), Num(1), ds, ts, 8, <<Num(1), Zero>>, 0, 1, Num(1), 0)) :
        ds \in HugeDataSizes,
        ts \in {Zero, Num(4), Num(\h20), Num(2048), U32(\hFF, \hFFFFFC)} }

UcodeStreams == SizeStreams \cup ChecksumStreams \cup WrapStreams

InitUcode ==
    /\ stream \in UcodeStreams
    /\ m = ZeroMicrocode
    /\ pc = "header"
    /\ ret = "running"
    /\ err = "nil"
    /\ image = EmptyBuf
    /\ efs = NilEFS
    /\ result = EmptyResult
    /\ offset = Zero
    /\ biosIdx = 1
    /\ slices = {}
    /\ arg = NoCall
    /\ out = NoCall

NextUcode ==
    \/ ReadHeader
    \/ SanityChecks
    \/ ReadData
    \/ Checksum
    \/ ReadExt
    \/ ExtChecksum

SpecUcode == InitUcode /\ [][NextUcode]_vars

-----------------------------------------------------------------------------
(* Claims about ParseIntelMicrocode                                        *)

\* the size fields as written in the stream, read by the two conventions
\* "0 means 2000" and "0 means 2048"
C9_DataSize ==
    IF U32At(stream, 28) = Zero THEN Num(2000) ELSE U32At(stream, 28)
C9_TotalSize ==
    IF U32At(stream, 32) = Zero THEN Num(2048) ELSE U32At(stream, 32)

C9_DataRead == pc \in {"checksum", "ext", "extsum"} \/ (pc = "done" /\ ret = "ok")
C9_ExtRead == stream.pos > HeaderSize + m.Data.len

\* C9: a data_size of 0 means 2000 data bytes (exactly that many are read and
\* checksummed), a non-zero data_size is used as is; independently a
\* total_size of 0 means 2048, a non-zero total_size is used as is (it decides
\* whether an extended table follows the data).
C9_SizeConventions ==
    /\ C9_DataRead => Num(m.Data.len) = C9_DataSize
    /\ pc = "done" /\ ret = "ok" =>
          (C9_ExtRead <=> Gt(C9_TotalSize, Add(C9_DataSize, Num(HeaderSize))))

\* the uint32 sum of the n / 4 words of the stream from offset from
C10_Words(from, n) ==
    {from + 4 * ((y - from) \div 4) :
        y \in {z \in DOMAIN stream.mem : z >= from /\ z < from + n}}
RECURSIVE C10_Sum(_)
C10_Sum(W) ==
    IF W = {} THEN Zero
    ELSE LET w == CHOOSE x \in W : TRUE
         IN  Add32(U32At(stream, w), C10_Sum(W \ {w}))

C10_ExtLen == stream.pos - HeaderSize - m.Data.len

\* C10: when ParseIntelMicrocode returns a Microcode, the words of the header
\* followed by the data block sum to 0 modulo 2^32 and, if an extended table
\* was read, so do the words of the table followed by its Count signatures;
\* every other return is an error with no Microcode.
C10_ChecksumsZero ==
    pc = "done" =>
        IF ret = "ok"
        THEN /\ ~ m.nil
             /\ C10_Sum(C10_Words(0, HeaderSize + m.Data.len)) = Zero
             /\ C10_ExtLen > 0 =>
                   /\ Num(Len(m.ExtendedSignatures)) = m.ExtSigTable.Count
                   /\ C10_ExtLen = ExtendedSigTableSize
                                     + Len(m.ExtendedSignatures) * ExtendedSignatureSize
                   /\ C10_Sum(C10_Words(HeaderSize + m.Data.len, C10_ExtLen)) = Zero
        ELSE ret = "error" /\ m.nil

\* an update with non-zero data and extended signatures is returned
C10_Witness ==
    /\ pc = "done"
    /\ ret = "ok"
    /\ m.Data.mem # <<>>
    /\ Len(m.ExtendedSignatures) >= 1

\* the size fields as the claims read them (C9's conventions), and whether
\* the call has come past the size check of the sanity checks
C11_SizeError == ret = "error" /\ err = "Bad data file size"
C11_TooSmall == Lt(C9_TotalSize, Add(C9_DataSize, Num(HeaderSize)))
C11_HeaderDecoded == pc # "header" /\ stream.pos >= HeaderSize

\* C11: a header whose effective total_size is below the effective
\* data_size + 48, the sum taken in the integers (no 32-bit wrap-around), is
\* rejected with the size error.
C11_NoWrapInSizeCheck ==
    C11_HeaderDecoded /\ C11_TooSmall /\ pc # "sanity" => C11_SizeError

C12_Succeeded == pc = "done" /\ ret = "ok"
C12_DataEnd == Add(C9_DataSize, Num(HeaderSize))

\* C12: a successful parse with total_size > data_size + 48 has read an
\* extended block of exactly total_size - data_size - 48 bytes, that is
\* 20 + 12 * Count bytes with len(ExtendedSignatures) = Count; a successful
\* parse with total_size = data_size + 48 has read no extended table and
\* ExtendedSignatures is empty.
C12_ExtendedBlockFillsTotal ==
    C12_Succeeded =>
        /\ Gt(C9_TotalSize, C12_DataEnd) =>
              /\ C9_ExtRead
              /\ Num(Len(m.ExtendedSignatures)) = m.ExtSigTable.Count
              /\ Num(ExtendedSigTableSize + ExtendedSignatureSize * Len(m.ExtendedSignatures))
                    = Sub(C9_TotalSize, C12_DataEnd)
        /\ C9_TotalSize = C12_DataEnd =>
              /\ ~ C9_ExtRead
              /\ m.ExtendedSignatures = <<>>

\* the header as written in the stream has version 1 and loader revision 1,
\* and its two effective sizes are multiples of 4
C13_HeaderValid ==
    /\ U32At(stream, 0) = Num(1)
    /\ U32At(stream, 20) = Num(1)
    /\ Mod4(C9_DataSize) = 0
    /\ Mod4(C9_TotalSize) = 0

\* C13: a returned Microcode has version 1, loader revision 1 and effective
\* data and total sizes divisible by 4; a header violating one of these is
\* rejected with an error while the stream still stands right after the
\* header (no data byte has been read).
C13_ValidatedHeader ==
    /\ C12_Succeeded => C13_HeaderValid
    /\ C11_HeaderDecoded /\ ~ C13_HeaderValid /\ pc # "sanity" =>
          /\ ret = "error"
          /\ m.nil
          /\ stream.pos = HeaderSize

-----------------------------------------------------------------------------
(* Functions called on their own                                           *)

\* a call of the function standing at pc on arg; nothing else changes
CallVarsOnly ==
    UNCHANGED <<image, err, efs, result, offset, biosIdx, slices, stream, m, arg>>

InitCall(inputs, fn) ==
    /\ arg \in inputs
    /\ out = NoCall
    /\ pc = fn
    /\ ret = "running"
    /\ err = "nil"
    /\ image = EmptyBuf
    /\ efs = NilEFS
    /\ result = EmptyResult
    /\ offset = Zero
    /\ biosIdx = 1
    /\ slices = {}
    /\ stream = NoStream
    /\ m = NoMicrocode

\* table, length, err := ParsePSPDirectoryTable(data)
CallParsePSPDirectoryTable ==
    /\ pc = "ParsePSPDirectoryTable"
    /\ out' = ParsePSPDirectoryTable(arg, 0)
    /\ pc' = "done"
    /\ ret' = IF out'.err THEN "error" ELSE "ok"
    /\ CallVarsOnly

\* the i-th entry of a generated table: its flags word varies with i
FlagChoices == << \h4000, \hC003, \hBFFF, 0 >>
TableEntry(i) ==
    [Type |-> i, Subprogram |-> 2 * i, flags |-> FlagChoices[1 + (i % 4)],
     Size |-> Num(\h100 * i), LocationOrValue |-> Phys(\h1000 * i)]

\* entry counts a generated header declares: small ones, 2^28 (whose product
\* with 16 is 2^32) and 2^32 - 1
TotalEntriesChoices ==
    {Num(k) : k \in 0 .. MaxEntries + 1} \cup {U32(\h10, 0), AllOnes32}

\* data handed to ParsePSPDirectoryTable: a header with one of four cookies
\* and a declared count, k entries behind it, cut or padded around its end
PSPTableInputs ==
    { MkImage(len, PSPTableBytes(0, cookie, total, [i \in 1 .. k |-> TableEntry(i)])) :
        cookie \in {PSPDirectoryTableCookie, PSPDirectoryTableLevel2Cookie,
                    BIOSDirectoryTableCookie, Zero},
        total \in TotalEntriesChoices,
        k \in 0 .. MaxEntries + 1,
        len \in {0, 3, 4, 15, 16, 31, 32, 47, 48, 63, 64, 70} }

InitParsePSP == InitCall(PSPTableInputs, "ParsePSPDirectoryTable")
NextParsePSP == CallParsePSPDirectoryTable
SpecParsePSP == InitParsePSP /\ [][NextParsePSP]_vars

\* the declared entry count of arg and whether count * 16 bytes follow the
\* header, both read from the raw bytes
C14_Total == U32At(arg, 8)
C14_Fits == C14_Total[2] = 0 /\ 16 + 16 * C14_Total[1] <= arg.len
C14_Bad ==
    \/ arg.len < 16
    \/ U32At(arg, 0) \notin {U32(\h50, \h535024), U32(\h32, \h4C5024)}
    \/ ~ C14_Fits

\* the entry the 16 bytes at offset o of arg stand for
C14_EntryAt(o) ==
    [Type            |-> Byte(arg, o),
     Subprogram      |-> Byte(arg, o + 1),
     ROMId           |-> Byte(arg, o + 3) \div 64,
     Size            |-> U32At(arg, o + 4),
     LocationOrValue |-> U64At(arg, o + 8)]

\* C14: ParsePSPDirectoryTable fails with no table when the header is short,
\* the cookie is neither "$PSP" nor "$PL2", or TotalEntries * 16 (in the
\* integers) exceeds the bytes after the header; otherwise it returns exactly
\* TotalEntries entries in order, ROMId being bits 14-15 of the flags word,
\* and the length 16 + 16 * TotalEntries.
C14_ParsePSPDirectoryTable ==
    pc = "done" =>
        IF C14_Bad
        THEN out.err /\ out.table.nil
        ELSE /\ ~ out.err
             /\ ~ out.table.nil
             /\ out.table.TotalEntries = C14_Total
             /\ Len(out.table.Entries) = C14_Total[1]
             /\ \A i \in 1 .. C14_Total[1] :
                    out.table.Entries[i] = C14_EntryAt(16 * i)
             /\ out.length = Num(16 + 16 * C14_Total[1])

\* a table with MaxEntries entries, among them a non-zero ROMId, is returned
C14_Witness ==
    /\ pc = "done"
    /\ ret = "ok"
    /\ ~ out.err
    /\ Len(out.table.Entries) >= 2
    /\ \E i \in 1 .. Len(out.table.Entries) : out.table.Entries[i].ROMId = 3

-----------------------------------------------------------------------------
(* util.go: Uint24                                                         *)

\* a Uint24 holding the three bytes b0, b1, b2, and its zero value
MkUint24(b0, b1, b2) == [Value |-> <<b0, b1, b2>>]
ZeroUint24 == MkUint24(0, 0, 0)

\* the decoding of the three bytes with the most significant byte first
Uint32_BigEndian(size) ==
    <<size.Value[3] + B8 * size.Value[2] + B16 * size.Value[1], 0, 0>>

\* func (size Uint24) Uint32(): the three bytes copied into a four-byte
\* buffer, read as binary.LittleEndian.Uint32
Uint32(size) ==
    U32At([len |-> 4,
           mem |-> [i \in 0 .. 2 |-> size.Value[i + 1]]], 0)

\* func (size *Uint24) SetUint32(newValue): [panic, size]
SetUint32(size, newValue) ==
    IF ~ Lt(newValue, Num(B24))
    THEN [panic |-> TRUE, size |-> size]
    ELSE LET b == PutU32(0, newValue)
         IN  [panic |-> FALSE, size |-> MkUint24(b[0], b[1], b[2])]

DigitChars == << "0", "1", "2", "3", "4", "5", "6", "7", "8", "9" >>

\* quotient and remainder of a number divided by 10
DivMod10(a) ==
    LET c1 == (a[3] % 10) * B24 + a[2]
        c0 == (c1 % 10) * B24 + a[1]
    IN  [q |-> <<c0 \div 10, c1 \div 10, a[3] \div 10>>, r |-> c0 % 10]

\* json.Marshal of a uint32: its decimal numeral, as a sequence of characters
RECURSIVE JSONMarshalUint(_)
JSONMarshalUint(a) ==
    IF Lt(a, Num(10)) THEN <<DigitChars[a[1] + 1]>>
    ELSE JSONMarshalUint(DivMod10(a).q) \o <<DigitChars[DivMod10(a).r + 1]>>

\* func (size Uint24) MarshalJSON()
MarshalJSON(size) == JSONMarshalUint(Uint32(size))

DigitOf(c) == (CHOOSE i \in 1 .. 10 : DigitChars[i] = c) - 1
IsDigit(c) == \E i \in 1 .. 10 : DigitChars[i] = c

\* the value of a sequence of digits
RECURSIVE ParseUint(_)
ParseUint(b) ==
    IF b = <<>> THEN Zero
    ELSE Add(MulSmall(ParseUint(SubSeq(b, 1, Len(b) - 1)), 10), Num(DigitOf(b[Len(b)])))

\* json.Unmarshal(b, &parsed) for var parsed uint32: b must be a JSON number
\* without sign, fraction or exponent and below 2^32: [err, value]
JSONUnmarshalUint32(b) ==
    IF \/ b = <<>>
       \/ \E i \in 1 .. Len(b) : ~ IsDigit(b[i])
       \/ Len(b) > 1 /\ b[1] = "0"
       \/ Len(b) > 10
    THEN [err |-> TRUE, value |-> Zero]
    ELSE IF ParseUint(b) # Wrap32(ParseUint(b))
    THEN [err |-> TRUE, value |-> Zero]
    ELSE [err |-> FALSE, value |-> ParseUint(b)]

\* func (size *Uint24) UnmarshalJSON(b): [err, size]
UnmarshalJSON(size, b) ==
    LET parsed == JSONUnmarshalUint32(b)
    IN  IF parsed.err THEN [err |-> TRUE, size |-> size]
        ELSE IF ~ Lt(parsed.value, Num(B24)) THEN [err |-> TRUE, size |-> size]
        ELSE [err |-> FALSE, size |-> SetUint32(size, parsed.value).size]

\* arguments of SetUint32, and JSON texts handed to UnmarshalJSON
Uint32Inputs ==
    { Zero, Num(1), Num(\hFF), Num(\h100), Num(\h010000), Num(\h123456),
      Num(\hFFFFFF), Num(B24), U32(\h01, \h123456), U32(\hFF, \hFFFFFF) }

JSONInputs ==
    { JSONMarshalUint(x) : x \in Uint32Inputs \cup { <<0, \h100, 0>>, <<5, \h100, 0>> } }
    \cup { <<>>, <<"-", "1">>, <<"0", "7">>, <<"1", ".", "5">> }

Uint24Vars == <<image, err, efs, result, offset, biosIdx, slices, stream, m>>

CallSetUint32 ==
    /\ pc = "Uint24"
    /\ \E x \in Uint32Inputs :
          LET r == SetUint32(arg, x)
          IN  /\ arg' = r.size
              /\ out' = [op |-> "SetUint32", x |-> x, before |-> arg]
              /\ ret' = IF r.panic THEN "panic" ELSE "ok"
              /\ pc' = IF r.panic THEN "done" ELSE pc
    /\ UNCHANGED Uint24Vars

CallUint32 ==
    /\ pc = "Uint24"
    /\ out' = [op |-> "Uint32", value |-> Uint32(arg),
               set |-> IF out.op = "SetUint32" THEN out.x ELSE Zero,
               afterSet |-> out.op = "SetUint32"]
    /\ ret' = "ok"
    /\ UNCHANGED <<pc, arg, Uint24Vars>>

CallMarshalJSON ==
    /\ pc = "Uint24"
    /\ out' = [op |-> "MarshalJSON", text |-> MarshalJSON(arg), of |-> arg]
    /\ ret' = "ok"
    /\ UNCHANGED <<pc, arg, Uint24Vars>>

\* UnmarshalJSON of a text, or of what MarshalJSON just returned, into the
\* current value or into a fresh Uint24
CallUnmarshalJSON ==
    /\ pc = "Uint24"
    /\ \E own \in {o \in BOOLEAN : o => out.op = "MarshalJSON"}, fresh \in BOOLEAN :
       \E b \in IF own THEN {out.text} ELSE JSONInputs :
          LET recv == IF fresh THEN ZeroUint24 ELSE arg
              r == UnmarshalJSON(recv, b)
          IN  /\ arg' = r.size
              /\ out' = [op |-> "UnmarshalJSON", text |-> b, recv |-> recv,
                         err |-> r.err, own |-> own,
                         src |-> IF own THEN out.of ELSE ZeroUint24]
              /\ ret' = IF r.err THEN "error" ELSE "ok"
    /\ UNCHANGED <<pc, Uint24Vars>>

\* var size Uint24, no method called yet
InitUint24 ==
    /\ arg = ZeroUint24
    /\ out = [op |-> "new"]
    /\ pc = "Uint24"
    /\ ret = "running"
    /\ err = "nil"
    /\ image = EmptyBuf
    /\ efs = NilEFS
    /\ result = EmptyResult
    /\ offset = Zero
    /\ biosIdx = 1
    /\ slices = {}
    /\ stream = NoStream
    /\ m = NoMicrocode

NextUint24 ==
    \/ CallSetUint32
    \/ CallUint32
    \/ CallMarshalJSON
    \/ CallUnmarshalJSON

SpecUint24 == InitUint24 /\ [][NextUint24]_vars

\* the integer the three bytes stand for, and the three bytes of an integer
C15_Int(size) == size.Value[1] + 256 * size.Value[2] + 65536 * size.Value[3]
C15_Bytes(n) == <<n % 256, (n \div 256) % 256, n \div 65536>>

\* the integer a text of at most eight decimal digits stands for (-1 for
\* anything that is not a plain numeral); longer numerals are 10^8 or more
RECURSIVE C15_TextInt(_)
C15_TextInt(b) ==
    IF Len(b) = 1
    THEN IF b[1] \in {"0", "1", "2", "3", "4", "5", "6", "7", "8", "9"}
         THEN DigitOf(b[1]) ELSE -1
    ELSE LET hi == C15_TextInt(SubSeq(b, 1, Len(b) - 1))
             lo == C15_TextInt(<<b[Len(b)]>>)
         IN  IF hi <= 0 \/ lo < 0 THEN -1 ELSE 10 * hi + lo
C15_Fits(b) == Len(b) \in 1 .. 8 /\ C15_TextInt(b) \in 0 .. 16777215

\* C15: Uint24 round-trips.  SetUint32(x) with x < 2^24 stores x and a
\* following Uint32() returns x; MarshalJSON emits the plain decimal numeral
\* of the value; UnmarshalJSON of a numeral below 2^24 stores it, and of the
\* output of MarshalJSON restores the three bytes that were marshalled; with
\* x >= 2^24 SetUint32 panics and UnmarshalJSON returns an error, the Uint24
\* staying as it was; Uint32() is always below 2^24.
C15_Uint24RoundTrip ==
    /\ pc \in {"Uint24", "done"}
    /\ \A i \in 1 .. 3 : arg.Value[i] \in 0 .. 255
    /\ Lt(Uint32(arg), <<0, 1, 0>>)
    /\ out.op = "SetUint32" =>
          IF out.x[2] = 0 /\ out.x[3] = 0
          THEN ret = "ok" /\ arg.Value = C15_Bytes(out.x[1])
          ELSE ret = "panic" /\ arg = out.before
    /\ out.op = "Uint32" =>
          /\ out.value = <<C15_Int(arg), 0, 0>>
          /\ out.afterSet => out.value = out.set
    /\ out.op = "MarshalJSON" =>
          /\ Len(out.text) \in 1 .. 8
          /\ C15_TextInt(out.text) = C15_Int(arg)
    /\ out.op = "UnmarshalJSON" =>
          /\ IF C15_Fits(out.text)
             THEN ~ out.err /\ ret = "ok" /\ arg.Value = C15_Bytes(C15_TextInt(out.text))
             ELSE out.err /\ ret = "error" /\ arg = out.recv
          /\ out.own => ~ out.err /\ arg = out.src

\* a non-zero value was marshalled and its text unmarshalled into a fresh
\* Uint24
C15_Witness ==
    /\ out.op = "UnmarshalJSON"
    /\ out.own
    /\ out.recv = ZeroUint24
    /\ out.src = MkUint24(\h56, \h34, \h12)
    /\ arg = out.src

-----------------------------------------------------------------------------
(* Further claims about parsePSPFirmware                                   *)

\* the i-th BIOS pointer has been through the loop of lines 212-242
C16_Processed(i) ==
    pc = "scan" \/ (pc = "done" /\ ret = "ok") \/ (pc = "bios" /\ i < biosIdx)

\* the slices image[offset:] the loop took for the raw pointer p
C16_Attempts(p) == {sl \in slices : sl.site = "bios" /\ sl.raw = p}

\* C16: a BIOS pointer p is parsed if and only if it is neither 0 nor
\* 0xFFFFFFFF and h(p) < N, and then at offset h(p), h being the rule of the
\* PSP pointers (subtract 0xFF000000 from values above 0xFF000000); the loop
\* goes through all four pointers.
C16_BIOSPointerRule ==
    /\ pc = "bios" => ret = "running" /\ biosIdx \in 1 .. 4
    /\ \A i \in 1 .. 4 :
          C16_Processed(i) =>
              LET p == biosDirectoryOffsets[i]
              IN  /\ C16_Attempts(p) # {} <=>
                        /\ p # Zero
                        /\ p # U32(\hFF, \hFFFFFF)
                        /\ Lt(Heuristic(p), Num(image.len))
                  /\ \A sl \in C16_Attempts(p) : sl.at = Heuristic(p)

\* the direct parse at one of the two (adjusted) PSP pointers failed, so that
\* the cookie scan was used for it
C17_ScanUsed ==
    \E ptr \in {efs.PSPLegacyDirectoryTablePointer, efs.PSPDirectoryTablePointer} :
        /\ ptr # Zero
        /\ Lt(ptr, Num(image.len))
        /\ ParsePSPDirectoryTable(image, Idx(ptr)).err

\* C17: the fallback scan for one PSP pointer starts 20 bytes behind the
\* directory found for the other, so it does not find that directory again:
\* no two entries of PSPDirectories describe the level-1 table standing at
\* the same offset of the image.
C17_NoRediscovery ==
    Returned =>
        \A i, j \in 1 .. Len(result.PSPDirectories) :
            i # j => result.PSPDirectories[i].at # result.PSPDirectories[j].at

\* C18: the directory found by the final cookie scan is appended only if its
\* range differs from the level-1 range of every directory found through an
\* EFS pointer: no two entries of BIOSDirectories have the same
\* BIOSDirectoryLevel1Range.
C18_ScanSuppressesDuplicates ==
    Returned =>
        \A i, j \in 1 .. Len(result.BIOSDirectories) :
            i # j => result.BIOSDirectories[i].BIOSDirectoryLevel1Range
                        # result.BIOSDirectories[j].BIOSDirectoryLevel1Range

\* the EFS record returned to parsePSPFirmware and the image offset it was
\* decoded at
C19_Parsed == pc # "start" /\ ret # "error" /\ ~ result.EmbeddedFirmware.nil
C19_At == Idx(result.EmbeddedFirmwareRange.Offset)

\* C19: ParseEmbeddedFirmwareStructure decodes the documented 80-byte
\* record: the reported length is 0x50, the EFS generation field is the four
\* bytes at record offset 0x24, the PSP pointers are the words at 0x10 and
\* 0x14 and the four BIOS pointers the words at 0x18, 0x1C, 0x20 and 0x28.
C19_DocumentedLayout ==
    C19_Parsed =>
        LET e == result.EmbeddedFirmware
            W(o) == U32At(image, C19_At + o)
        IN  /\ result.EmbeddedFirmwareRange.Length = Num(\h50)
            /\ EFSFieldOffset("EFSGen") = \h24
            /\ EFSFieldOffset("BIOSDirectoryTableFamily17hModels60h3FhPointer") = \h28
            /\ e.PSPLegacyDirectoryTablePointer = W(\h10)
            /\ e.PSPDirectoryTablePointer = W(\h14)
            /\ e.BIOSDirectoryTableFamily17hModels00h0FhPointer = W(\h18)
            /\ e.BIOSDirectoryTableFamily17hModels10h1FhPointer = W(\h1C)
            /\ e.BIOSDirectoryTableFamily17hModels30h3FhPointer = W(\h20)
            /\ e.BIOSDirectoryTableFamily17hModels60h3FhPointer = W(\h28)

-----------------------------------------------------------------------------
(* FindPSPDirectoryTable, one iteration of its loop at a time              *)

\* the part of an image the generator puts together: kind and size
BlockSize(kind) ==
    CASE kind = "decoy" -> 16    \* "$PSP" declaring 2^32 - 1 entries
      [] kind = "t1"    -> 32    \* "$PSP" table with one entry
      [] kind = "l2"    -> 16    \* "$PL2" table without entries
      [] kind = "bare"  -> 4     \* the "$PSP" cookie alone
      [] kind = "pad"   -> 5     \* zero bytes

BlockBytes(kind, at) ==
    CASE kind = "decoy" -> PSPTableBytes(at, PSPDirectoryTableCookie, AllOnes32, <<>>)
      [] kind = "t1"    -> PSPTableBytes(at, PSPDirectoryTableCookie, Num(1),
                                         <<TableEntry(1)>>)
      [] kind = "l2"    -> PSPTableBytes(at, PSPDirectoryTableLevel2Cookie, Zero, <<>>)
      [] kind = "bare"  -> PutU32(at, PSPDirectoryTableCookie)
      [] kind = "pad"   -> <<>>

BlockKinds == {"decoy", "t1", "l2", "bare", "pad"}

\* the largest number of blocks of a generated image
MaxBlocks == 2

RECURSIVE BlocksSize(_)
BlocksSize(ks) == IF ks = <<>> THEN 0 ELSE BlockSize(Head(ks)) + BlocksSize(Tail(ks))

RECURSIVE BlocksBytes(_, _)
BlocksBytes(ks, at) ==
    IF ks = <<>> THEN <<>>
    ELSE BlockBytes(Head(ks), at) @@ BlocksBytes(Tail(ks), at + BlockSize(Head(ks)))

\* images made of blocks, whole or with the last byte taken away
ScanImages ==
    { MkImage(BlocksSize(ks) - (IF BlocksSize(ks) > 0 THEN cut ELSE 0),
              BlocksBytes(ks, 0)) :
        ks \in SeqsUpTo(BlockKinds, MaxBlocks), cut \in {0, 1} }

\* shift := uint64(idx + len(cookieBytes)) without the cookie length
shift_Zero(idx) == idx

\* shift := uint64(idx + len(cookieBytes))
shift(idx) == idx + 4

\* one iteration of the loop of FindPSPDirectoryTable(arg): out.image is the
\* start within arg of the slice held by the variable image, out.offset the
\* variable offset
FindPSPStep ==
    /\ pc = "FindPSPDirectoryTable"
    /\ LET found == CookieAt(arg, out.image, PSPDirectoryTableCookie)
           idx == Min(found) - out.image
           p == ParsePSPDirectoryTable(arg, out.image + idx)
       IN  IF found = {}
           THEN /\ out' = [out EXCEPT !.err = TRUE]
                /\ pc' = "done"
                /\ ret' = "error"
           ELSE IF p.err
           THEN /\ out' = [out EXCEPT !.image = @ + idx + 4,
                                      !.offset = Add64(@, Num(shift(idx)))]
                /\ UNCHANGED <<pc, ret>>
           ELSE /\ out' = [out EXCEPT !.table = p.table,
                                      !.range = Range(Add64(out.offset, Num(idx)), p.length)]
                /\ pc' = "done"
                /\ ret' = "ok"
    /\ CallVarsOnly

InitFindPSP ==
    /\ arg \in ScanImages
    /\ out = [image |-> 0, offset |-> Zero, err |-> FALSE, table |-> NilTable,
              range |-> ZeroRange]
    /\ pc = "FindPSPDirectoryTable"
    /\ ret = "running"
    /\ err = "nil"
    /\ image = EmptyBuf
    /\ efs = NilEFS
    /\ result = EmptyResult
    /\ offset = Zero
    /\ biosIdx = 1
    /\ slices = {}
    /\ stream = NoStream
    /\ m = NoMicrocode

NextFindPSP == FindPSPStep

\* the loop is the only thing running: its next iteration is always taken
SpecFindPSP == InitFindPSP /\ [][NextFindPSP]_vars /\ WF_vars(NextFindPSP)

\* the offsets o of arg at which the "$PSP" cookie stands and a table parses:
\* 16 header bytes and 16 bytes for each declared entry are there
C20_Declared(o) == U32At(arg, o + 8)
C20_Good ==
    {o \in DOMAIN arg.mem :
        /\ o + 16 <= arg.len
        /\ U32At(arg, o) = U32(\h50, \h535024)
        /\ C20_Declared(o)[2] = 0
        /\ o + 16 + 16 * C20_Declared(o)[1] <= arg.len}

C20_Result ==
    pc = "done" =>
        IF C20_Good = {}
        THEN ret = "error" /\ out.err /\ out.table.nil /\ out.range = ZeroRange
        ELSE LET o == CHOOSE x \in C20_Good : \A y \in C20_Good : x <= y
             IN  /\ ret = "ok"
                 /\ ~ out.err
                 /\ out.range = Range(Num(o), Num(16 + 16 * C20_Declared(o)[1]))
                 /\ out.table = ParsePSPDirectoryTable(arg, o).table

\* C20: FindPSPDirectoryTable terminates on every image; it returns the table
\* at the lowest offset where the "$PSP" cookie stands and the table parses,
\* Range.Offset being that offset and Range.Length the parsed length, every
\* earlier cookie whose parse fails being skipped; it returns the not-found
\* error exactly when there is no such offset.
C20_FindPSPDirectoryTable == [] C20_Result /\ <>(pc = "done")

\* a table is returned from behind a cookie whose parse failed
C20_Witness ==
    /\ pc = "done"
    /\ ret = "ok"
    /\ Cardinality({o \in CookieAt(arg, 0, PSPDirectoryTableCookie) :
                        Lt(Num(o), out.range.Offset)}) >= 1

====
